---- MODULE Spec2Model ----
(***************************************************************************)
(* Model of the variable algebra and selection engine of                   *)
(* ar6_database_handling (src/utils/datavar.py: Var, DataVar, _to_list)    *)
(* over a scenario universe built as src/utils/importdata.py builds it.    *)
(*                                                                         *)
(* Conventions.  A Python optional is a sequence: <<>> is None, <<x>> is   *)
(* the value x.  A number is a pair <<n, d>>: d > 0 is the rational n/d in *)
(* lowest terms, <<0,0>> is NaN, <<1,0>> and <<-1,0>> are +inf and -inf    *)
(* (floats are modelled as exact rationals with IEEE special values).      *)
(* A pandas table is a record [kind, index, columns, data]: index and      *)
(* columns are label sequences and data is positional (row-major), so      *)
(* every alignment by label is computed, not assumed.  A Series is a table *)
(* of kind "series" with one positional column and an optional name.       *)
(* Year lists are duplicate-free.                                          *)
(***************************************************************************)
EXTENDS Integers, Sequences, FiniteSets, TLC

\* Bound: how many Var objects the caller keeps alive at once.
MaxVars == 2

----------------------------------------------------------------------------
\* Sequences and labels

Range(s) == {s[i] : i \in DOMAIN s}

Index(s, x) == CHOOSE i \in DOMAIN s : s[i] = x

\* Every label of the model in Python's string order; pandas sorts the
\* union of two differing indexes with it.
LexOrder == <<"2020", "2025", "2030", "M1 S1", "M1 S2", "M2 S1">>

SortLabels(S) == SelectSeq(LexOrder, LAMBDA x : x \in S)

\* list(d.keys()) of a dict of the constants, in the order it is written
KeyOrder == <<"CurPol", "GS", "SSP1-19", "SSP1-26">>

KeysOf(S) == SelectSeq(KeyOrder, LAMBDA x : x \in S)

\* pandas Index.union as used by alignment: the same index is kept as it
\* is, two differing indexes give their sorted union.
UnionIndex(a, b) == IF a = b THEN a ELSE SortLabels(Range(a) \cup Range(b))

----------------------------------------------------------------------------
\* Numbers

NaN == <<0, 0>>

Num(n) == <<n, 1>>

IsNaN(x) == x = NaN

Abs(n) == IF n < 0 THEN -n ELSE n

Sgn(n) == IF n < 0 THEN -1 ELSE IF n > 0 THEN 1 ELSE 0

RECURSIVE GCD(_, _)
GCD(a, b) == IF b = 0 THEN a ELSE GCD(b, a % b)

Norm(n, d) ==
    LET g == GCD(Abs(n), Abs(d))
    IN  IF d < 0 THEN <<(-n) \div g, (-d) \div g>> ELSE <<n \div g, d \div g>>

FAdd(x, y) ==
    IF IsNaN(x) \/ IsNaN(y) THEN NaN
    ELSE IF x[2] = 0 /\ y[2] = 0 THEN (IF x[1] = y[1] THEN x ELSE NaN)
    ELSE IF x[2] = 0 THEN x
    ELSE IF y[2] = 0 THEN y
    ELSE Norm(x[1] * y[2] + y[1] * x[2], x[2] * y[2])

FNeg(x) == <<-x[1], x[2]>>

FSub(x, y) == FAdd(x, FNeg(y))

FMul(x, y) ==
    IF IsNaN(x) \/ IsNaN(y) THEN NaN
    ELSE IF x[2] = 0 \/ y[2] = 0
         THEN <<Sgn(x[1]) * Sgn(y[1]), 0>>
    ELSE Norm(x[1] * y[1], x[2] * y[2])

FDiv(x, y) ==
    IF IsNaN(x) \/ IsNaN(y) THEN NaN
    ELSE IF y[2] = 0 THEN (IF x[2] = 0 THEN NaN ELSE Num(0))
    ELSE IF y[1] = 0 THEN <<Sgn(x[1]), 0>>
    ELSE FMul(x, Norm(y[2], y[1]))

Operators == {"+", "-", "*", "/"}

BinOp(op, x, y) ==
    CASE op = "+" -> FAdd(x, y)
      [] op = "-" -> FSub(x, y)
      [] op = "*" -> FMul(x, y)
      [] op = "/" -> FDiv(x, y)

----------------------------------------------------------------------------
\* pandas tables

Frame(index, columns, data) ==
    [kind |-> "frame", index |-> index, columns |-> columns, name |-> <<>>,
     data |-> data]

\* A Series: name is an optional label; its one column is positional.
Series(index, name, column) ==
    [kind |-> "series", index |-> index, columns |-> <<"value">>,
     name |-> name, data |-> [i \in DOMAIN column |-> <<column[i]>>]]

IsSeries(t) == t.kind = "series"

\* The cell at labels (r, c); a label the table lacks reads as missing,
\* which is what reindexing to a larger index gives.
Cell(t, r, c) ==
    IF r \in Range(t.index) /\ c \in Range(t.columns)
    THEN t.data[Index(t.index, r)][Index(t.columns, c)]
    ELSE NaN

\* The value of a Series at row label r (missing when it lacks the label)
At(t, r) == IF r \in Range(t.index) THEN t.data[Index(t.index, r)][1] ELSE NaN

\* DataFrame.fillna / Series.fillna
Fillna(t, d) ==
    [t EXCEPT !.data = [i \in DOMAIN t.data |->
        [j \in DOMAIN t.data[i] |->
            IF IsNaN(t.data[i][j]) THEN d ELSE t.data[i][j]]]]

\* t[cols] with a list of column labels: a frame of those columns in order
SelectColumns(t, cols) ==
    Frame(t.index, cols,
          [i \in DOMAIN t.index |->
              [j \in DOMAIN cols |-> Cell(t, t.index[i], cols[j])]])

\* t[col] with one column label: the Series named col
SelectColumn(t, col) ==
    Series(t.index, <<col>>, [i \in DOMAIN t.index |-> Cell(t, t.index[i], col)])

\* t[c] = column: the frame with column c added (or replaced), the new
\* values aligned on t's index
SetColumn(t, c, column) ==
    LET cols == IF c \in Range(t.columns) THEN t.columns ELSE Append(t.columns, c)
    IN  Frame(t.index, cols,
              [i \in DOMAIN t.index |->
                  [j \in DOMAIN cols |->
                      IF cols[j] = c THEN At(column, t.index[i])
                      ELSE Cell(t, t.index[i], cols[j])]])

\* An arithmetic that keeps only the rows both sides have (an inner join).
TableOpInner(op, a, b) ==
    LET index == SelectSeq(a.index, LAMBDA r : r \in Range(b.index))
        columns == UnionIndex(a.columns, b.columns)
    IN  [kind |-> a.kind, index |-> index, columns |-> columns,
         name |-> IF a.name = b.name THEN a.name ELSE <<>>,
         data |-> [i \in DOMAIN index |->
                     [j \in DOMAIN columns |->
                         BinOp(op, Cell(a, index[i], columns[j]),
                                   Cell(b, index[i], columns[j]))]]]

\* left op right for two DataFrames or two Series (pandas flex arithmetic):
\* rows and columns are aligned by label as an outer join, a cell either
\* side lacks is missing; a Series result keeps the name only when both
\* names agree.
TableOp(op, a, b) ==
    LET index == UnionIndex(a.index, b.index)
        columns == UnionIndex(a.columns, b.columns)
    IN  [kind |-> a.kind, index |-> index, columns |-> columns,
         name |-> IF a.name = b.name THEN a.name ELSE <<>>,
         data |-> [i \in DOMAIN index |->
                     [j \in DOMAIN columns |->
                         BinOp(op, Cell(a, index[i], columns[j]),
                                   Cell(b, index[i], columns[j]))]]]

\* table op number: the number is broadcast against every cell
TableOpNumber(op, a, n) ==
    [a EXCEPT !.data = [i \in DOMAIN a.data |->
        [j \in DOMAIN a.data[i] |-> BinOp(op, a.data[i][j], n)]]]

\* A replication that drops the last year of the list.
ReplicateButLast(s, years) ==
    LET ys == SubSeq(years, 1, Len(years) - 1)
    IN  Frame(s.index, ys,
              [i \in DOMAIN s.index |-> [j \in DOMAIN ys |-> s.data[i][1]]])

\* pd.DataFrame({year: s for year in years}): the Series s replicated
\* under every year label, on the index of s
Replicate(s, years) ==
    Frame(s.index, years,
          [i \in DOMAIN s.index |-> [j \in DOMAIN years |-> s.data[i][1]]])

----------------------------------------------------------------------------
\* Program constants (utils/constants.py) and collaborators (utils/data.py)

\* The known years, a list of strings
YEARS == <<"2020", "2030">>

\* name of an illustrative pathway -> its canonical scenario
IP_SCENARIOS ==
    [v \in {"CurPol", "GS"} |->
        [name |-> v, scenario |-> IF v = "CurPol" THEN "M1 S1" ELSE "M2 S1"]]

\* name of a shared socioeconomic pathway -> its canonical scenario
SSP_SCENARIOS ==
    [v \in {"SSP1-19", "SSP1-26"} |->
        [name |-> v, scenario |-> IF v = "SSP1-19" THEN "M1 S2" ELSE "M2 S1"]]

all_categories == <<"C1", "C2", "C3", "C4", "C5", "C6", "C7", "C8">>

\* float(y) of a year string
PyFloat(y) ==
    CASE y = "2020" -> Num(2020)
      [] y = "2025" -> Num(2025)
      [] y = "2030" -> Num(2030)

\* A lookup that drops the rows with a missing value (a dropna).
VariableRowsComplete(data, variable, cols) ==
    LET rows == SelectSeq(data, LAMBDA r : /\ r.Variable = variable
                                           /\ \A k \in DOMAIN r.values : ~IsNaN(r.values[k]))
    IN  Frame([i \in DOMAIN rows |-> rows[i].Name], cols,
              [i \in DOMAIN rows |->
                  [j \in DOMAIN cols |-> rows[i].values[Index(YEARS, cols[j])]]])

\* The rows of the dataset for one variable, indexed by scenario name,
\* with the known-year columns cols:
\* data[data["Variable"] == variable].set_index("Name")[cols]
VariableRows(data, variable, cols) ==
    LET rows == SelectSeq(data, LAMBDA r : r.Variable = variable)
    IN  Frame([i \in DOMAIN rows |-> rows[i].Name], cols,
              [i \in DOMAIN rows |->
                  [j \in DOMAIN cols |-> rows[i].values[Index(YEARS, cols[j])]]])

\* The interpolation service: one value per scenario of the variable, the
\* linear interpolation at year y between the first and the last known year.
get_interp(data, variable, y) ==
    LET known == VariableRows(data, variable, YEARS)
        y0 == PyFloat(YEARS[1])
        y1 == PyFloat(YEARS[Len(YEARS)])
        w  == FDiv(FSub(PyFloat(y), y0), FSub(y1, y0))
    IN  Series(known.index, <<>>,
               [i \in DOMAIN known.index |->
                   FAdd(known.data[i][1],
                        FMul(FSub(known.data[i][Len(YEARS)], known.data[i][1]), w))])

----------------------------------------------------------------------------
\* _to_list and the year argument

\* A year argument: kind "none" (omitted), "scalar" or "list"; an item is a
\* pair <<type, text>>, type "int" or "str", text its decimal digits.
PyStr(item) == item[2]

\* _to_list(value, to_str=True) on a year argument: a list of strings
ToListStr(year) == [i \in DOMAIN year.items |-> PyStr(year.items[i])]

\* _to_list(value) on a filter argument: a scalar becomes a one-item list
ToList(arg) == arg.items

----------------------------------------------------------------------------
\* Var.__init__

\* What a call returns: err is "" and value holds the result, or err names
\* the exception raised and value is empty.  interp lists the years the
\* interpolation service was invoked for, lookup tells whether the dataset
\* was read.
Return(v, interp, lookup) ==
    [err |-> "", value |-> <<v>>, interp |-> interp, lookup |-> lookup]

Raise(e) == [err |-> e, value |-> <<>>, interp |-> <<>>, lookup |-> FALSE]

\* if variable is not None: lines 27-47.  The year is normalised to a list
\* of strings, the known years are read from the dataset, every other year
\* is interpolated, and the requested columns are selected in order.
FromVariable(data, variable, yearArg) ==
    LET year0 == IF yearArg.kind = "none"
                 THEN [kind |-> "list",
                       items |-> [i \in DOMAIN YEARS |-> <<"str", YEARS[i]>>]]
                 ELSE yearArg
        to_series == year0.kind # "list"
        year == ToListStr(year0)
        existing_years == SelectSeq(year, LAMBDA y : y \in Range(YEARS))
        interp_years == SelectSeq(year, LAMBDA y : y \notin Range(YEARS))
        looked == VariableRows(data, variable, existing_years)
        F[k \in 0..Len(interp_years)] ==
            IF k = 0 THEN looked
            ELSE SetColumn(F[k - 1], interp_years[k],
                           get_interp(data, variable, interp_years[k]))
        full == F[Len(interp_years)]
    IN  [_year |-> [list |-> ~to_series,
                    items |-> IF to_series THEN <<year[1]>> ELSE year],
         _values |-> IF to_series THEN SelectColumn(full, year[1])
                     ELSE SelectColumns(full, year),
         interp |-> interp_years]

\* if values is not None: lines 49-54.  The year is read off the table.
FromValues(values) ==
    [_year |-> IF IsSeries(values)
               THEN [list |-> FALSE,
                     items |-> <<IF values.name = <<>> THEN "None"
                                 ELSE values.name[1]>>]
               ELSE [list |-> TRUE, items |-> values.columns],
     _values |-> values]

\* Lines 27-58: both blocks in program order, then the default fill.
VarBuild(data, variable, yearArg, values, default) ==
    LET unset == [_year |-> [list |-> TRUE, items |-> <<>>],
                  _values |-> Frame(<<>>, <<>>, <<>>), interp |-> <<>>]
        a == IF variable # <<>>
             THEN FromVariable(data, variable[1], yearArg)
             ELSE unset
        b == IF values # <<>> THEN FromValues(values[1]) ELSE a
    IN  Return([_variable |-> variable,
                _year |-> b._year,
                _values |-> IF default # <<>>
                            THEN Fillna(b._values, default[1])
                            ELSE b._values,
                default |-> default,
                given |-> [variable |-> variable # <<>>,
                           values |-> values # <<>>]],
               a.interp, variable # <<>>)

\* A constructor without the checks of lines 22-25.
VarInitUnchecked(data, variable, yearArg, values, default) ==
    VarBuild(data, variable, yearArg, values, default)

\* Var(data, scenarios, vetted_scenarios, variable, year, values, default)
VarInit(data, variable, yearArg, values, default) ==
    IF variable = <<>> /\ values = <<>>
    THEN Raise("Exception: variable and values cannot both be None")
    ELSE IF variable # <<>> /\ values # <<>>
    THEN Raise("Exception: variable and values cannot both be defined")
    ELSE VarBuild(data, variable, yearArg, values, default)

----------------------------------------------------------------------------
\* Var.select

\* A filter argument: kind "none" (omitted), "str" (one string) or "list".
IsAll(arg) == arg.kind = "str" /\ arg.items = <<"all">>

IndexOf(selection) == {selection[i].Name : i \in DOMAIN selection}

\* self.scenarios.loc[name]
Loc(scenarios, name) ==
    scenarios[CHOOSE i \in DOMAIN scenarios : scenarios[i].Name = name]

\* Lines 117-119: the selection restricted to the canonical scenarios of the
\* requested SSPs.
SspRestrict(selection, ssp) ==
    SelectSeq(selection,
              LAMBDA r : r.Name \in {SSP_SCENARIOS[v].scenario : v \in Range(ssp)})

\* A select that adds no unvetted scenario back.
SspAddBackNever(selection, scenarios, ssp) == selection

\* Lines 120-125: every requested SSP whose canonical scenario the selection
\* lacks gets that scenario's row of the full universe appended.
RECURSIVE SspAddBack(_, _, _)
SspAddBack(selection, scenarios, ssp) ==
    IF ssp = <<>> THEN selection
    ELSE LET name == SSP_SCENARIOS[Head(ssp)].scenario
         IN  SspAddBack(IF name \notin IndexOf(selection)
                        THEN Append(selection, Loc(scenarios, name))
                        ELSE selection,
                        scenarios, Tail(ssp))

\* Lines 106-126
SspSelect(selection, scenarios, ssp) ==
    SspAddBack(SspRestrict(selection, ssp), scenarios, ssp)

\* Ascending order of the metadata labels, a missing label last
MetaOrder == <<"C1", "C2", "C3", "C4", "C5", "C6", "C7", "C8",
               "CurPol", "GS", "SSP1-19", "SSP1-26">>

Rank(x) == IF x = <<>> THEN Len(MetaOrder) + 1 ELSE Index(MetaOrder, x[1])

KeyLess(k1, k2) ==
    \E p \in DOMAIN k1 :
        /\ Rank(k1[p]) < Rank(k2[p])
        /\ \A q \in 1..(p - 1) : k1[q] = k2[q]

\* sort_values(extra_columns): ascending by the key columns, rows with the
\* same key in their order; with no key column the rows stay as they are
SortValues(rows) ==
    LET pos(i) == Cardinality({j \in DOMAIN rows : KeyLess(rows[j].key, rows[i].key)})
                  + Cardinality({j \in 1..i : rows[j].key = rows[i].key})
    IN  [p \in DOMAIN rows |-> rows[CHOOSE i \in DOMAIN rows : pos(i) = p]]

\* Lines 136-152: the values of the selected scenarios, each with its
\* metadata of the active axes, sorted and indexed by (axes..., Name).
Project(self, selection, extra_columns) ==
    LET t == self._values
        keep == SelectSeq([i \in DOMAIN t.index |-> i],
                          LAMBDA i : t.index[i] \in IndexOf(selection))
        rows == [k \in DOMAIN keep |->
                    LET meta == Loc(selection, t.index[keep[k]])
                    IN  [Name |-> t.index[keep[k]],
                         key |-> [c \in DOMAIN extra_columns |-> meta[extra_columns[c]]],
                         meta |-> meta,
                         values |-> t.data[keep[k]]]]
    IN  [is_series |-> IsSeries(t),
         names |-> Append(extra_columns, "Name"),
         columns |-> IF IsSeries(t) THEN <<"value">> ELSE t.columns,
         rows |-> SortValues(rows)]

\* A select that ignores the ndc argument.
NotImplementedCurPolOnly(curpol, ndc) ==
    IF curpol # <<>>
    THEN "NotImplementedError: CurPol selection filter not implemented yet"
    ELSE ""

\* Lines 128-134: the error of a curpol or ndc argument, "" without one
NotImplemented(curpol, ndc) ==
    IF curpol # <<>>
    THEN "NotImplementedError: CurPol selection filter not implemented yet"
    ELSE IF ndc # <<>>
    THEN "NotImplementedError: NDC selection filter not implemented yet"
    ELSE ""

\* A select that reads the vetted flag the wrong way round.
StartSelectionSwapped(scenarios, vetted_scenarios, vetted) ==
    IF vetted THEN scenarios ELSE vetted_scenarios

\* Line 75
StartSelection(scenarios, vetted_scenarios, vetted) ==
    IF vetted THEN vetted_scenarios ELSE scenarios

\* Var.select(category, ip, ssp, curpol, ndc, vetted)
Select(self, scenarios, vetted_scenarios, category, ip, ssp, curpol, ndc, vettedArg) ==
    LET vetted == IF vettedArg = <<>> THEN TRUE ELSE vettedArg[1]
        sel0 == StartSelection(scenarios, vetted_scenarios, vetted)
        cat == IF IsAll(category) THEN all_categories ELSE ToList(category)
        sel1 == IF category.kind = "none" THEN sel0
                ELSE SelectSeq(sel0, LAMBDA r : /\ r.Category # <<>>
                                                /\ r.Category[1] \in Range(cat))
        ips == IF IsAll(ip) THEN KeysOf(DOMAIN IP_SCENARIOS) ELSE ToList(ip)
        sel2 == IF ip.kind = "none" THEN sel1
                ELSE SelectSeq(sel1, LAMBDA r :
                        r.Name \in {IP_SCENARIOS[v].scenario : v \in Range(ips)})
        ssps == IF IsAll(ssp) THEN KeysOf(DOMAIN SSP_SCENARIOS) ELSE ToList(ssp)
        sel3 == IF ssp.kind = "none" THEN sel2
                ELSE SspSelect(sel2, scenarios, ssps)
        extra_columns ==
            (IF category.kind = "none" THEN <<>> ELSE <<"Category">>)
            \o (IF ip.kind = "none" THEN <<>> ELSE <<"IP">>)
            \o (IF ssp.kind = "none" THEN <<>> ELSE <<"SSP">>)
    IN  IF category.kind # "none" /\ \E c \in Range(cat) : c \notin Range(all_categories)
        THEN Raise("KeyError: not a valid climate category")
        ELSE IF ip.kind # "none" /\ \E v \in Range(ips) : v \notin DOMAIN IP_SCENARIOS
        THEN Raise("KeyError: not a valid IP")
        ELSE IF ssp.kind # "none" /\ \E v \in Range(ssps) : v \notin DOMAIN SSP_SCENARIOS
        THEN Raise("KeyError: not a valid SSP")
        ELSE IF ssp.kind # "none" /\ \E v \in Range(ssps) :
                    SSP_SCENARIOS[v].scenario \notin IndexOf(scenarios)
        THEN Raise("KeyError: scenario not in the universe")
        ELSE IF NotImplemented(curpol, ndc) # ""
        THEN Raise(NotImplemented(curpol, ndc))
        ELSE Return(Project(self, sel3, extra_columns), <<>>, FALSE)

----------------------------------------------------------------------------
\* Var arithmetic

\* The other operand: a plain number or a Var
Number(n) == [number |-> <<n>>, var |-> <<>>]

Operand(v) == [number |-> <<>>, var |-> <<v>>]

\* A harmonisation that compares the year lists in order, not as sets, and
\* does not replicate a single-year operand.
HarmoniseOrdered(self, other) ==
    IF other.number # <<>>
    THEN [err |-> "", left |-> self._values, right |-> <<>>, n |-> other.number]
    ELSE IF self._year.list /\ other.var[1]._year.list
            /\ self._year.items # other.var[1]._year.items
    THEN [err |-> "Exception: years not compatible",
          left |-> self._values, right |-> <<>>, n |-> <<>>]
    ELSE [err |-> "", left |-> self._values,
          right |-> <<other.var[1]._values>>, n |-> <<>>]

\* Var._check_and_harmonise_inputs(self, other): the two tables the operator
\* combines (right is empty and n set when other is a number), or the error.
Harmonise(self, other) ==
    IF other.number # <<>>
    THEN [err |-> "", left |-> self._values, right |-> <<>>, n |-> other.number]
    ELSE LET o == other.var[1]
             y1 == self._year
             y2 == o._year
         IN  IF y1.list /\ y2.list
             THEN IF Range(y1.items) # Range(y2.items)
                  THEN [err |-> "Exception: years not compatible",
                        left |-> self._values, right |-> <<>>, n |-> <<>>]
                  ELSE [err |-> "", left |-> self._values,
                        right |-> <<o._values>>, n |-> <<>>]
             ELSE IF y1.list /\ ~y2.list
             THEN [err |-> "", left |-> self._values,
                   right |-> <<Replicate(o._values, y1.items)>>, n |-> <<>>]
             ELSE IF ~y1.list /\ y2.list
             THEN [err |-> "", left |-> Replicate(self._values, y2.items),
                   right |-> <<o._values>>, n |-> <<>>]
             ELSE [err |-> "", left |-> self._values,
                   right |-> <<o._values>>, n |-> <<>>]

\* Var.__add__, __sub__, __mul__, __truediv__ (op names the operator): the
\* harmonised tables are combined and wrapped in a new Var that inherits
\* the default of self.
Arith(op, self, other, data) ==
    LET h == Harmonise(self, other)
        new_values == IF h.n # <<>> THEN TableOpNumber(op, h.left, h.n[1])
                      ELSE TableOp(op, h.left, h.right[1])
    IN  IF h.err # "" THEN Raise(h.err)
        ELSE VarInit(data, <<>>, [kind |-> "none", items |-> <<>>],
                     <<new_values>>, self.default)

----------------------------------------------------------------------------
\* The dataset and the scenario universe (utils/importdata.py)

\* The dataset after import: one row per (scenario, variable), one value
\* per known year.
Dataset ==
    << [Name |-> "M1 S1", Variable |-> "Emissions|CO2", values |-> <<Num(1), Num(2)>>],
       [Name |-> "M1 S2", Variable |-> "Emissions|CO2", values |-> <<Num(2), NaN>>],
       [Name |-> "M2 S1", Variable |-> "Emissions|CO2", values |-> <<Num(0), Num(4)>>],
       [Name |-> "M2 S1", Variable |-> "Emissions|CH4", values |-> <<Num(0), Num(3)>>],
       [Name |-> "M1 S1", Variable |-> "Emissions|CH4", values |-> <<Num(2), NaN>>] >>

\* create_scenarios(data): one row per scenario of the dataset, in order
create_scenarios(data) ==
    LET first == SelectSeq([i \in DOMAIN data |-> i],
                           LAMBDA i : \A j \in 1..(i - 1) : data[j].Name # data[i].Name)
    IN  [k \in DOMAIN first |-> data[first[k]].Name]

\* scenarios.loc[name, column] = value: the row's column is set; a name the
\* table lacks is added as a new row with every other column missing
SetLoc(scenarios, name, column, value) ==
    IF name \in IndexOf(scenarios)
    THEN [i \in DOMAIN scenarios |->
            IF scenarios[i].Name = name
            THEN [scenarios[i] EXCEPT ![column] = value]
            ELSE scenarios[i]]
    ELSE Append(scenarios,
                [[Name |-> name, Category |-> <<>>, IP |-> <<>>, SSP |-> <<>>,
                  Vetted |-> FALSE] EXCEPT ![column] = value])

\* _create_metadata_df: the scenarios of the dataset merged (left) with the
\* vetting sheet, Vetted == "PASS", then the IP and the SSP column written
\* from the constants.
create_metadata_df(data, vetting_df) ==
    LET names == create_scenarios(data)
        merged == [i \in DOMAIN names |->
                     [Name |-> names[i],
                      Category |-> IF names[i] \in DOMAIN vetting_df
                                   THEN vetting_df[names[i]].Category ELSE <<>>,
                      IP |-> <<>>, SSP |-> <<>>,
                      Vetted |-> /\ names[i] \in DOMAIN vetting_df
                                 /\ vetting_df[names[i]].Vetting_historical = "PASS"]]
        ips == KeysOf(DOMAIN IP_SCENARIOS)
        ssps == KeysOf(DOMAIN SSP_SCENARIOS)
        A[k \in 0..Len(ips)] ==
            IF k = 0 THEN merged
            ELSE SetLoc(A[k - 1], IP_SCENARIOS[ips[k]].scenario, "IP",
                        <<IP_SCENARIOS[ips[k]].name>>)
        B[k \in 0..Len(ssps)] ==
            IF k = 0 THEN A[Len(ips)]
            ELSE SetLoc(B[k - 1], SSP_SCENARIOS[ssps[k]].scenario, "SSP",
                        <<SSP_SCENARIOS[ssps[k]].name>>)
    IN  B[Len(ssps)]

\* The vetted sub-universe: the rows of the universe that passed vetting
VettedOnly(scenarios) == SelectSeq(scenarios, LAMBDA r : r.Vetted)

----------------------------------------------------------------------------
\* Inputs

None == <<>>

Omitted == [kind |-> "none", items |-> <<>>]

Str(x) == [kind |-> "str", items |-> <<x>>]

List(xs) == [kind |-> "list", items |-> xs]

Scalar(item) == [kind |-> "scalar", items |-> <<item>>]

StrList(xs) == [kind |-> "list", items |-> [i \in DOMAIN xs |-> <<"str", xs[i]>>]]

Variables == {"Emissions|CO2", "Emissions|CH4"}

\* The vetting sheets the universe is built from: every scenario passes or
\* fails vetting, the canonical scenario of SSP1-19 is of category C1 or C3.
Sheet(pass, c) ==
    [n \in {"M1 S1", "M1 S2", "M2 S1"} |->
        [Category |-> IF n = "M1 S1" THEN <<"C1">>
                      ELSE IF n = "M1 S2" THEN <<c>> ELSE <<"C3">>,
         Vetting_historical |-> IF n \in pass THEN "PASS" ELSE "FAIL"]]

AllSheets ==
    {Sheet(pass, c) : pass \in SUBSET {"M1 S1", "M1 S2", "M2 S1"}, c \in {"C3"}}

OneSheet == {Sheet({"M1 S1"}, "C3")}

\* Explicit value tables a caller may wrap in a Var
ValueTables ==
    { Frame(<<"M1 S2", "M1 S1">>, <<"2030", "2020">>,
            << <<Num(0), Num(5)>>, <<NaN, Num(1)>> >>),
      Series(<<"M1 S1", "M2 S1">>, <<"2030">>, <<Num(0), Num(2)>>) }

\* Constructor calls on the variable path
VariableCalls(years, defaults) ==
    [variable : {<<v>> : v \in Variables}, year : years, values : {None},
     default : defaults]

\* Constructor calls on the values path
ValuesCalls(defaults) ==
    [variable : {None}, year : {Omitted}, values : {<<t>> : t \in ValueTables},
     default : defaults]

\* Constructor calls that give both a variable and values, or neither
AmbiguousCalls ==
    [variable : {<<"Emissions|CO2">>}, year : {Omitted, StrList(<<"2020", "2025">>)},
     values : {<<t>> : t \in ValueTables}, default : {None, <<Num(0)>>}]
    \cup [variable : {None}, year : {Omitted, StrList(<<"2020", "2025">>)},
          values : {None}, default : {None, <<Num(0)>>}]

SelectYears == {Omitted, Scalar(<<"str", "2020">>)}

ArithYears ==
    { Scalar(<<"int", "2020">>), StrList(<<"2020", "2030">>),
      StrList(<<"2030", "2020">>), StrList(<<"2020", "2025">>) }

\* The Vars arithmetic is checked on: both variables without a default,
\* and one of them with the default 0
ArithCalls ==
    VariableCalls(ArithYears, {None})
    \cup {c \in VariableCalls(ArithYears, {<<Num(0)>>}) : c.variable = <<"Emissions|CO2">>}

\* Year arguments of every shape: omitted, one year or a list, strings or
\* integers, known years or not
ConstructYears ==
    { Omitted, Scalar(<<"str", "2020">>), Scalar(<<"int", "2030">>),
      Scalar(<<"str", "2025">>), StrList(<<"2030", "2020">>), StrList(<<"2020">>),
      StrList(<<"2020", "2025">>), List(<< <<"int", "2020">>, <<"int", "2030">> >>) }

ConstructCalls == VariableCalls(ConstructYears, {None})

\* The constructor calls of the whole program: both paths, with and without
\* a default, and the ambiguous calls
ProgramCalls ==
    VariableCalls({StrList(<<"2020", "2025">>), Scalar(<<"int", "2030">>)}, {None})
    \cup ValuesCalls({<<Num(0)>>})
    \cup AmbiguousCalls

\* select calls
SelectCalls(categories, ips, ssps, flags, vetteds) ==
    [category : categories, ip : ips, ssp : ssps, curpol : flags, ndc : flags,
     vetted : vetteds]

Flags == {None, <<TRUE>>}

Categories == {Omitted, Str("all"), List(<<"C1">>), Str("C9")}

Ips == {Omitted, List(<<"CurPol">>), Str("XX")}

Ssps == {Omitted, List(<<"SSP1-19">>), List(<<"SSP1-26", "SSP1-19">>), Str("SSP9")}

----------------------------------------------------------------------------
\* The state: the dataset, the two universes, the Vars the caller holds,
\* the last call and what it returned.

VARIABLES data, scenarios, vetted_scenarios, vars, call, ret

vars_ == <<data, scenarios, vetted_scenarios, vars, call, ret>>

Idle == [op |-> "idle"]

Nothing == [err |-> "", value |-> <<>>, interp |-> <<>>, lookup |-> FALSE]

InitWith(sheets) ==
    /\ data = Dataset
    /\ \E sheet \in sheets : scenarios = create_metadata_df(Dataset, sheet)
    /\ vetted_scenarios = VettedOnly(scenarios)
    /\ vars = <<>>
    /\ call = Idle
    /\ ret = Nothing

\* The caller keeps a returned Var while it has room for one.
Keep(r) == IF r.err = "" /\ Len(vars) < MaxVars THEN Append(vars, r.value[1]) ELSE vars

\* Var(data, scenarios, vetted_scenarios, variable, year, values, default)
NewVar(calls) ==
    /\ call = Idle
    /\ Len(vars) < MaxVars
    /\ \E c \in calls :
        LET r == VarInit(data, c.variable, c.year, c.values, c.default)
        IN  /\ call' = [op |-> "Var", args |-> c]
            /\ ret' = r
            /\ vars' = Keep(r)
    /\ UNCHANGED <<data, scenarios, vetted_scenarios>>

\* DataVar(data, scenarios, vetted_scenarios)(variable, year, **kwargs)
DataVarCall(calls) ==
    /\ call = Idle
    /\ Len(vars) < MaxVars
    /\ \E c \in calls :
        LET r == VarInit(data, c.variable, c.year, c.values, c.default)
        IN  /\ call' = [op |-> "DataVar", args |-> c]
            /\ ret' = r
            /\ vars' = Keep(r)
    /\ UNCHANGED <<data, scenarios, vetted_scenarios>>

\* vars[i].select(...)
SelectCall(calls) ==
    /\ call = Idle
    /\ \E i \in DOMAIN vars, c \in calls :
        /\ call' = [op |-> "select", self |-> i, args |-> c]
        /\ ret' = Select(vars[i], scenarios, vetted_scenarios, c.category, c.ip,
                         c.ssp, c.curpol, c.ndc, c.vetted)
    /\ UNCHANGED <<data, scenarios, vetted_scenarios, vars>>

\* An operator that works in place: self takes the combined values.
ArithVarInPlace ==
    /\ call = Idle
    /\ \E op \in Operators, i \in DOMAIN vars, j \in DOMAIN vars :
        LET r == Arith(op, vars[i], Operand(vars[j]), data)
        IN  /\ call' = [op |-> op, self |-> i, other |-> <<j>>, n |-> <<>>]
            /\ ret' = r
            /\ vars' = IF r.err = "" THEN [vars EXCEPT ![i] = r.value[1]] ELSE vars
    /\ UNCHANGED <<data, scenarios, vetted_scenarios>>

\* vars[i] op vars[j]
ArithVar ==
    /\ call = Idle
    /\ \E op \in Operators, i \in DOMAIN vars, j \in DOMAIN vars :
        LET r == Arith(op, vars[i], Operand(vars[j]), data)
        IN  /\ call' = [op |-> op, self |-> i, other |-> <<j>>, n |-> <<>>]
            /\ ret' = r
            /\ vars' = Keep(r)
    /\ UNCHANGED <<data, scenarios, vetted_scenarios>>

\* vars[i] op n
ArithNumber(numbers) ==
    /\ call = Idle
    /\ \E op \in Operators, i \in DOMAIN vars, n \in numbers :
        LET r == Arith(op, vars[i], Number(n), data)
        IN  /\ call' = [op |-> op, self |-> i, other |-> <<>>, n |-> <<n>>]
            /\ ret' = r
            /\ vars' = Keep(r)
    /\ UNCHANGED <<data, scenarios, vetted_scenarios>>

\* The caller is done with what the last call returned.
Discard ==
    /\ call # Idle
    /\ call' = Idle
    /\ ret' = Nothing
    /\ UNCHANGED <<data, scenarios, vetted_scenarios, vars>>

\* Selection over every universe
NextSelect ==
    \/ NewVar(VariableCalls(SelectYears, {None}))
    \/ SelectCall(SelectCalls(Categories, Ips, Ssps, Flags,
                              {None, <<TRUE>>, <<FALSE>>}))
    \/ Discard

SpecSelect == InitWith(AllSheets) /\ [][NextSelect]_vars_

\* Arithmetic over one universe
NextArith ==
    \/ NewVar(ArithCalls)
    \/ ArithVar
    \/ ArithNumber({Num(2)})
    \/ Discard

SpecArith == InitWith(OneSheet) /\ [][NextArith]_vars_

----------------------------------------------------------------------------
\* Properties of select

IsSelect == call.op = "select"

Succeeded == ret.err = ""

\* The scenarios of a select result
ResultNames(r) == {r.value[1].rows[k].Name : k \in DOMAIN r.value[1].rows}

\* The values a filter argument asks for
Requested(arg, everything) == IF IsAll(arg) THEN everything ELSE Range(arg.items)

VettedFlag(c) == IF c.vetted = None THEN TRUE ELSE c.vetted[1]

\* C1: every scenario a select returns matches all the filters given: its
\* Category is one of the requested categories, its IP one of the requested
\* IPs and its SSP one of the requested SSPs.
C1_ResultMatchesAllFilters ==
    (IsSelect /\ Succeeded) =>
        \A k \in DOMAIN ret.value[1].rows :
            LET m == ret.value[1].rows[k].meta
                c == call.args
            IN  /\ c.category.kind # "none" =>
                    /\ m.Category # <<>>
                    /\ m.Category[1] \in Requested(c.category, Range(all_categories))
                /\ c.ip.kind # "none" =>
                    /\ m.IP # <<>>
                    /\ m.IP[1] \in Requested(c.ip, DOMAIN IP_SCENARIOS)
                /\ c.ssp.kind # "none" =>
                    /\ m.SSP # <<>>
                    /\ m.SSP[1] \in Requested(c.ssp, DOMAIN SSP_SCENARIOS)

\* A select by SSP alone, vetted scenarios only
IsSspSelect ==
    /\ IsSelect
    /\ call.args.category = Omitted
    /\ call.args.ip = Omitted
    /\ call.args.ssp.kind = "list"
    /\ Range(call.args.ssp.items) \subseteq DOMAIN SSP_SCENARIOS
    /\ call.args.curpol = None
    /\ call.args.ndc = None
    /\ VettedFlag(call.args)

\* C2: select(ssp=tags, vetted=True) succeeds and returns the canonical
\* scenario of every requested tag that the full universe and the Var's
\* values hold, whether or not the scenario is vetted.
C2_CanonicalSspIncluded ==
    IsSspSelect =>
        /\ Succeeded
        /\ \A t \in Range(call.args.ssp.items) :
              LET name == SSP_SCENARIOS[t].scenario
              IN  (/\ name \in IndexOf(scenarios)
                   /\ name \in Range(vars[call.self]._values.index))
                  => name \in ResultNames(ret)

\* C2's case: two tags requested, the canonical scenario of one of them
\* unvetted, and both returned.
C2_Witness ==
    /\ IsSspSelect
    /\ Len(call.args.ssp.items) = 2
    /\ \E t \in Range(call.args.ssp.items) :
          SSP_SCENARIOS[t].scenario \notin IndexOf(vetted_scenarios)
    /\ \A t \in Range(call.args.ssp.items) :
          SSP_SCENARIOS[t].scenario \in ResultNames(ret)

\* The same select on the full universe
Unvetted(c) ==
    Select(vars[call.self], scenarios, vetted_scenarios, c.category, c.ip, c.ssp,
           c.curpol, c.ndc, <<FALSE>>)

\* C3: what select(..., vetted=True) returns is a subset of what
\* select(..., vetted=False) returns for the same other arguments.
C3_VettedSubsetOfUnvetted ==
    (IsSelect /\ Succeeded /\ VettedFlag(call.args)) =>
        /\ Unvetted(call.args).err = ""
        /\ ResultNames(ret) \subseteq ResultNames(Unvetted(call.args))

\* C3's case: a category filter under which the vetted result is non-empty
\* and smaller than the unvetted one.
C3_Witness ==
    /\ IsSelect /\ Succeeded /\ VettedFlag(call.args)
    /\ call.args.category.kind # "none"
    /\ ResultNames(ret) # {}
    /\ ResultNames(ret) # ResultNames(Unvetted(call.args))

\* The category, ip and ssp arguments are all valid
ValidFilters(c) ==
    /\ Requested(c.category, Range(all_categories)) \subseteq Range(all_categories)
    /\ Requested(c.ip, DOMAIN IP_SCENARIOS) \subseteq DOMAIN IP_SCENARIOS
    /\ Requested(c.ssp, DOMAIN SSP_SCENARIOS) \subseteq DOMAIN SSP_SCENARIOS
    /\ \A t \in Requested(c.ssp, DOMAIN SSP_SCENARIOS) :
          SSP_SCENARIOS[t].scenario \in IndexOf(scenarios)

IsNotImplemented(e) ==
    e \in {"NotImplementedError: CurPol selection filter not implemented yet",
           "NotImplementedError: NDC selection filter not implemented yet"}

WithFlag == IsSelect /\ (call.args.curpol # None \/ call.args.ndc # None)

\* C7 as claimed: a select with curpol or ndc fails with the
\* not-implemented error whatever the other arguments are.
C7_AlwaysNotImplemented ==
    WithFlag => IsNotImplemented(ret.err)

\* C7: a select with curpol or ndc fails and returns nothing; the error is
\* the not-implemented error when the category, ip and ssp arguments are
\* valid, and the KeyError of the first invalid one otherwise.
C7_FailsNotImplementedWhenValid ==
    WithFlag =>
        /\ ret.err # ""
        /\ ret.value = <<>>
        /\ ValidFilters(call.args) <=> IsNotImplemented(ret.err)

\* C7's case: ndc alone given besides valid filters on all three axes.
C7_Witness ==
    /\ WithFlag
    /\ call.args.curpol = None
    /\ call.args.category.kind # "none"
    /\ call.args.ip.kind # "none"
    /\ call.args.ssp.kind # "none"
    /\ IsNotImplemented(ret.err)

----------------------------------------------------------------------------
\* Properties of the arithmetic

IsArith == call.op \in Operators

IsArithVar == IsArith /\ call.other # <<>>

Self == vars[call.self]

Other == vars[call.other[1]]

Result == ret.value[1]

\* A missing value is replaced by the default when there is one
Filled(x, default) == IF default # <<>> /\ IsNaN(x) THEN default[1] ELSE x

\* The cell of a Var for a scenario and a year; a single-year Var has the
\* same value for every year
Value(v, r, y) == IF v._year.list THEN Cell(v._values, r, y) ELSE At(v._values, r)

BothVector == IsArithVar /\ Self._year.list /\ Other._year.list

SameYearSet == Range(Self._year.items) = Range(Other._year.items)

\* Every cell of the result is f(operator applied to the operands' cells)
CellsAre(f(_)) ==
    /\ Range(Result._values.index)
          = Range(Self._values.index) \cup Range(Other._values.index)
    /\ \A r \in Range(Result._values.index), y \in Range(Result._year.items) :
          Value(Result, r, y) = f(BinOp(call.op, Value(Self, r, y), Value(Other, r, y)))

\* C5 as claimed: two multi-year Vars whose year sets differ raise the
\* year error; with equal sets the operation succeeds and every result cell
\* is the operator applied to the operands' cells of that scenario and year.
C5_CellsAreOperatorApplied ==
    BothVector =>
        IF SameYearSet
        THEN /\ Succeeded
             /\ Range(Result._year.items) = Range(Self._year.items)
             /\ CellsAre(LAMBDA x : x)
        ELSE ret.err = "Exception: years not compatible" /\ ret.value = <<>>

\* C5: as claimed, except that a result cell that would be missing holds
\* the default of self when self has one.
C5_CellsAreOperatorAppliedThenFilled ==
    BothVector =>
        IF SameYearSet
        THEN /\ Succeeded
             /\ Result._year.list
             /\ Range(Result._year.items) = Range(Self._year.items)
             /\ Range(Result._values.columns) = Range(Self._year.items)
             /\ CellsAre(LAMBDA x : Filled(x, Self.default))
        ELSE ret.err = "Exception: years not compatible" /\ ret.value = <<>>

\* C5's case: the same years in another order, a result computed from two
\* present cells and a result that was missing and got the default.
C5_Witness ==
    /\ BothVector /\ SameYearSet /\ Succeeded
    /\ Self._year.items # Other._year.items
    /\ Self.default # None
    /\ \E r \in Range(Result._values.index), y \in Range(Result._year.items) :
          /\ IsNaN(Value(Other, r, y))
          /\ Value(Result, r, y) = Self.default[1]
    /\ \E r \in Range(Result._values.index), y \in Range(Result._year.items) :
          /\ ~IsNaN(Value(Other, r, y))
          /\ Value(Self, r, y) # Value(Self, r, Self._year.items[1])

OneVectorOneScalar == IsArithVar /\ Self._year.list # Other._year.list

VectorOperand == IF Self._year.list THEN Self ELSE Other

\* The shape C6 claims, with f applied to every combined cell
BroadcastShape(f(_)) ==
    /\ OneVectorOneScalar =>
          /\ Succeeded
          /\ Result._year.list
          /\ Result._year.items = VectorOperand._year.items
          /\ Result._values.columns = VectorOperand._year.items
          /\ CellsAre(f)
    /\ (IsArithVar /\ ~Self._year.list /\ ~Other._year.list) =>
          Succeeded /\ ~Result._year.list
    /\ (IsArith /\ call.other = <<>>) =>
          Succeeded /\ Result._year = Self._year

\* C6 as claimed: a multi-year Var combined with a single-year Var gives a
\* multi-year Var with the years of the multi-year operand, each column the
\* operator applied to that column and the single column; two single-year
\* Vars give a single-year Var; a number keeps mode and years of self.
C6_BroadcastIsOperatorApplied == BroadcastShape(LAMBDA x : x)

\* C6: as claimed, except that a result cell that would be missing holds
\* the default of self when self has one.
C6_BroadcastIsOperatorAppliedThenFilled ==
    BroadcastShape(LAMBDA x : Filled(x, Self.default))

\* C6's case: a single-year self with a default and a two-year other with a
\* missing cell.
C6_Witness ==
    /\ OneVectorOneScalar /\ Succeeded
    /\ ~Self._year.list
    /\ Len(Result._year.items) = 2
    /\ Self.default # None
    /\ \E r \in Range(Result._values.index), y \in Range(Result._year.items) :
          IsNaN(Value(Other, r, y)) /\ ~IsNaN(Value(Result, r, y))

OnlyInOne == 
    (Range(Self._values.index) \cup Range(Other._values.index))
    \ (Range(Self._values.index) \cap Range(Other._values.index))

\* The outer join C9 claims, one-sided rows holding the value `missing`
OuterJoin(missing) ==
    IsArithVar =>
        /\ (~BothVector \/ SameYearSet) => Succeeded
        /\ Succeeded =>
              /\ Range(Result._values.index)
                    = Range(Self._values.index) \cup Range(Other._values.index)
              /\ \A r \in OnlyInOne, y \in Range(Result._year.items) :
                    Value(Result, r, y) = missing

\* C9 as claimed: the result holds the scenarios of both operands, and a
\* scenario only one of them has is missing in every column of the result.
C9_OneSidedRowsMissing == OuterJoin(NaN)

\* C9: as claimed, except that the one-sided rows hold the default of self
\* when self has one.
C9_OneSidedRowsMissingOrDefault == OuterJoin(Filled(NaN, Self.default))

\* C9's case: scenarios that only one operand has, and a default of self
\* that takes the place of their missing values.
C9_Witness ==
    /\ IsArithVar /\ Succeeded
    /\ OnlyInOne # {}
    /\ Self.default # None
    /\ \A r \in OnlyInOne, y \in Range(Result._year.items) :
          Value(Result, r, y) = Self.default[1]

----------------------------------------------------------------------------
\* Specifications of construction and of the whole program

\* Construction with every shape of year argument, and select()
NextConstruct ==
    \/ NewVar(ConstructCalls)
    \/ DataVarCall(ConstructCalls)
    \/ SelectCall(SelectCalls({Omitted}, {Omitted}, {Omitted}, {None},
                              {None, <<TRUE>>, <<FALSE>>}))
    \/ Discard

SpecConstruct == InitWith(AllSheets) /\ [][NextConstruct]_vars_

\* Every operation
Next ==
    \/ NewVar(ProgramCalls)
    \/ DataVarCall(ProgramCalls)
    \/ SelectCall(SelectCalls({Omitted, Str("C9")}, {Omitted},
                              {Omitted, List(<<"SSP1-19">>)}, Flags, {None, <<FALSE>>}))
    \/ ArithVar
    \/ ArithNumber({Num(2)})
    \/ Discard

Spec == InitWith(OneSheet) /\ [][Next]_vars_

----------------------------------------------------------------------------
\* Properties of construction

IsConstruct == call.op \in {"Var", "DataVar"}

\* The scenarios with a row for the variable in the dataset
DatasetNames(variable) ==
    {data[i].Name : i \in {k \in DOMAIN data : data[k].Variable = variable}}

\* The years a constructor call asks for, as strings
RequestedYears(c) ==
    IF c.year = Omitted THEN Range(YEARS)
    ELSE {PyStr(c.year.items[i]) : i \in DOMAIN c.year.items}

IsPlainSelect ==
    /\ IsSelect
    /\ call.args = [category |-> Omitted, ip |-> Omitted, ssp |-> Omitted,
                    curpol |-> None, ndc |-> None, vetted |-> None]
    /\ Self._variable # None
    /\ Range(Self._year.items) \subseteq Range(YEARS)

IsKnownYearsConstruct ==
    /\ IsConstruct
    /\ call.args.variable # None
    /\ call.args.values = None
    /\ RequestedYears(call.args) \subseteq Range(YEARS)

\* C4 as claimed: for a Var of a variable and known years, select() returns
\* exactly the scenarios with a row for the variable in the dataset, and
\* constructing it invokes no interpolation.
C4_SelectReturnsDatasetScenarios ==
    /\ IsPlainSelect =>
          Succeeded /\ ResultNames(ret) = DatasetNames(Self._variable[1])
    /\ IsKnownYearsConstruct => Succeeded /\ ret.interp = <<>>

\* C4: select() returns exactly the scenarios with a row for the variable
\* in the dataset that are in the vetted sub-universe (select keeps vetted
\* scenarios only unless vetted=False is passed), and constructing the Var
\* invokes no interpolation.
C4_SelectReturnsVettedDatasetScenarios ==
    /\ IsPlainSelect =>
          /\ Succeeded
          /\ ResultNames(ret)
                = DatasetNames(Self._variable[1]) \cap IndexOf(vetted_scenarios)
    /\ IsKnownYearsConstruct =>
          /\ Succeeded
          /\ ret.interp = <<>>
          /\ Range(Result._year.items) = RequestedYears(call.args)
          /\ Range(Result._values.index) = DatasetNames(call.args.variable[1])

\* C4's case: select() on a two-year Var of a variable with a vetted and an
\* unvetted scenario in the dataset.
C4_Witness ==
    /\ IsPlainSelect /\ Succeeded
    /\ Len(Self._year.items) = 2
    /\ ResultNames(ret) # {}
    /\ ResultNames(ret) # DatasetNames(Self._variable[1])

ExactlyOne(c) == (c.variable # None) # (c.values # None)

\* C8: a construction succeeds only with exactly one of variable and values;
\* with both or neither it raises at once, having read no data, invoked no
\* interpolation and built nothing; every Var held or returned, those of
\* the operators and of DataVar included, was built from exactly one.
C8_ExactlyOneOfVariableAndValues ==
    /\ IsConstruct =>
          /\ Succeeded => ExactlyOne(call.args)
          /\ ~ExactlyOne(call.args) =>
                /\ ret.err = IF call.args.variable = None
                             THEN "Exception: variable and values cannot both be None"
                             ELSE "Exception: variable and values cannot both be defined"
                /\ ret.value = <<>>
                /\ ret.interp = <<>>
                /\ ~ret.lookup
    /\ \A i \in DOMAIN vars : vars[i].given.variable # vars[i].given.values
    /\ ((IsConstruct \/ IsArith) /\ Succeeded) =>
          Result.given.variable # Result.given.values

\* C8's case: both a variable and values given, with a year that would need
\* interpolation and a default that would be filled in.
C8_Witness ==
    /\ IsConstruct
    /\ call.args.variable # None /\ call.args.values # None
    /\ "2025" \in RequestedYears(call.args)
    /\ call.args.default # None
    /\ ~Succeeded

\* C10: no step changes the dataset, either universe or a Var that exists;
\* a Var an operator returns is a new one, held beside its operands.
C10_NothingExistingChanges ==
    [][ /\ data' = data
        /\ scenarios' = scenarios
        /\ vetted_scenarios' = vetted_scenarios
        /\ Len(vars') >= Len(vars)
        /\ \A i \in DOMAIN vars : vars'[i] = vars[i]
        /\ (call'.op \in Operators /\ ret'.err = "" /\ Len(vars) < MaxVars)
              => vars' = Append(vars, ret'.value[1]) ]_vars_

\* C10's case: an operator has returned a Var that differs from self, and
\* both are held.
C10_Witness ==
    /\ IsArithVar /\ Succeeded
    /\ Len(vars) = 2
    /\ vars[2] = Result
    /\ Result._values # Self._values

====
